---- MODULE Spec2Model ----
(***************************************************************************)
(* District 6 canvassing app (src/streamlit_app.py).                       *)
(*                                                                         *)
(* State: the four SQLite tables (precincts, addresses, interactions,      *)
(* volunteers) and the Streamlit session state of one browser session.     *)
(* One action per user-triggered handler; a handler's action includes the  *)
(* store calls it makes.  The program never writes the precincts and       *)
(* addresses tables: they hold whatever canvassing_data.db was seeded      *)
(* with, possibly nothing, so Init draws them from bounded seed sets.      *)
(*                                                                         *)
(* Conventions                                                             *)
(*  - Python None is the string NONE.                                      *)
(*  - A Python dict is a TLA+ function on its keys; dict.get is Get.       *)
(*  - Strings are atomic in TLA+: orderings and conversions of strings     *)
(*    (ORDER BY on TEXT, str.lower, int()) are tables over the strings     *)
(*    that occur.                                                          *)
(*  - Address columns that no handler reads for a decision (owner1,        *)
(*    owner2, address, city_zip, unit, zip_code, property_type,            *)
(*    owner_occupied) are left out of the rows; latitude and longitude are *)
(*    kept in thousandths of a degree.                                     *)
(*  - Percentages are scaled integers: coverage_percentage in hundredths   *)
(*    of a percent (round(x, 2)), the Stats table's Coverage column in     *)
(*    tenths (the .1f format).                                             *)
(*  - volunteer_email and volunteer_phone of the session state only       *)
(*    prefill the Settings form and are left out, and so is current_tab:   *)
(*    a handler's action stands for opening its tab and using the widget.  *)
(*    get_stats, which the Stats tab calls on every render and which       *)
(*    writes nothing, is the state function get_stats.                     *)
(*  - A store exception is an input of save_interaction, whose callers     *)
(*    ignore its result; the other store calls are taken to be served.     *)
(*  - CURRENT_TIMESTAMP is the variable clock, in whole seconds; only      *)
(*    INSERT reads it, so it moves in the recording steps, by an input.    *)
(*    load_address_interactions is the set of lists the query can return.  *)
(***************************************************************************)
EXTENDS Integers, Sequences, FiniteSets

VARIABLES
    tbl_precincts,      \* precincts table, rows in insertion order
    tbl_addresses,      \* addresses table, rows in insertion order
    tbl_interactions,   \* interactions table, rows in insertion order
    tbl_volunteers,     \* volunteers table, rows in insertion order
    clock,              \* the store's CURRENT_TIMESTAMP, in seconds
    volunteer_name,     \* st.session_state.volunteer_name
    volunteer_id,       \* st.session_state.volunteer_id
    selected_precinct,  \* st.session_state.selected_precinct
    addresses,          \* st.session_state.addresses
    visited_addresses,  \* st.session_state.visited_addresses
    last_op             \* history: the handler that ran last

vars == <<tbl_precincts, tbl_addresses, tbl_interactions, tbl_volunteers,
          volunteer_name, volunteer_id, selected_precinct, addresses,
          visited_addresses, clock, last_op>>

store == <<tbl_precincts, tbl_addresses, tbl_interactions, tbl_volunteers>>

----------------------------------------------------------------------------
(* Bounds of the model *)

\* rows the interactions table may grow to
MaxInteractions == 2

----------------------------------------------------------------------------
(* Python / SQL helpers *)

NONE == "None"

Min(a, b) == IF a <= b THEN a ELSE b

\* dict.get(key, default)
Get(d, key, default) == IF key \in DOMAIN d THEN d[key] ELSE default

Range(s) == {s[k] : k \in DOMAIN s}

\* lexicographic order of two-part sort keys
KeyLessEq(a, b) == a[1] < b[1] \/ (a[1] = b[1] /\ a[2] <= b[2])

\* Stable sort of s by keys (keys[k] is the sort key of s[k]), as
\* list.sort(key=...) and as ORDER BY on a
\* rowid-ordered scan: element k goes to the place that counts the elements
\* sorting before it, equal ones keeping their order.  (Concatenating <<>>
\* makes TLC compute a table once instead of at every use.)
StableSort(s, keys) ==
    LET place == [k \in DOMAIN s |->
                    Cardinality({j \in DOMAIN s :
                        /\ KeyLessEq(keys[j], keys[k])
                        /\ (~KeyLessEq(keys[k], keys[j]) \/ j <= k)})] \o <<>>
    IN  [i \in DOMAIN s |-> s[CHOOSE k \in DOMAIN s : place[k] = i]] \o <<>>

\* the rows s[k] with passes[k], in the order of s
SelectRows(s, passes) ==
    LET count == [k \in DOMAIN s |->
                    Cardinality({j \in 1..k : passes[j]})] \o <<>>
        total == IF s = <<>> THEN 0 ELSE count[Len(s)]
    IN  [i \in 1..total |->
            s[CHOOSE k \in DOMAIN s : passes[k] /\ count[k] = i]] \o <<>>

\* round(num / den * 100, 2) in hundredths of a percent.  Exact ties at the
\* third decimal need den to be a multiple of 64 and are rounded up here.
Round2Pct(num, den) == (2 * 10000 * num + den) \div (2 * den)

\* f"{num / den * 100:.1f}" in tenths of a percent (ties need den to be a
\* multiple of 16)
Format1Pct(num, den) == (2 * 1000 * num + den) \div (2 * den)

----------------------------------------------------------------------------
(* Reference data *)

\* byte order of the TEXT values that occur as precinct ids
PrecinctIdRank ==
    [id \in {"123", "125", "130", "135", "136", "138", "142", "144", "145",
             "154", "155", "7"} |->
        CASE id = "123" -> 1 [] id = "125" -> 2 [] id = "130" -> 3
          [] id = "135" -> 4 [] id = "136" -> 5 [] id = "138" -> 6
          [] id = "142" -> 7 [] id = "144" -> 8 [] id = "145" -> 9
          [] id = "154" -> 10 [] id = "155" -> 11 [] id = "7" -> 12]

\* int(precinct_id)
PrecinctNumber ==
    [id \in DOMAIN PrecinctIdRank |->
        CASE id = "123" -> 123 [] id = "125" -> 125 [] id = "130" -> 130
          [] id = "135" -> 135 [] id = "136" -> 136 [] id = "138" -> 138
          [] id = "142" -> 142 [] id = "144" -> 144 [] id = "145" -> 145
          [] id = "154" -> 154 [] id = "155" -> 155 [] id = "7" -> 7]

streets == <<"MAIN ST", "OAK AVE", "PINE ST", "MAPLE DR", "CEDAR LN",
             "BEACH BLVD", "CENTRAL AVE">>

\* byte order of the street names
StreetRank ==
    [s \in Range(streets) \cup {""} |->
        CASE s = "" -> 0 [] s = "BEACH BLVD" -> 1 [] s = "CEDAR LN" -> 2
          [] s = "CENTRAL AVE" -> 3 [] s = "MAIN ST" -> 4
          [] s = "MAPLE DR" -> 5 [] s = "OAK AVE" -> 6 [] s = "PINE ST" -> 7]

PrecinctRow(id, name, total) ==
    [id |-> id, name |-> name, total_addresses |-> total]

\* the demo precincts load_precinct_data returns for an empty table
SamplePrecincts ==
    << PrecinctRow("123", "Precinct 123", 1253),
       PrecinctRow("125", "Precinct 125", 2577),
       PrecinctRow("130", "Precinct 130", 1615),
       PrecinctRow("135", "Precinct 135", 4198),
       PrecinctRow("136", "Precinct 136", 274),
       PrecinctRow("138", "Precinct 138", 5337),
       PrecinctRow("142", "Precinct 142", 4560),
       PrecinctRow("144", "Precinct 144", 3334),
       PrecinctRow("145", "Precinct 145", 2704),
       PrecinctRow("154", "Precinct 154", 4908),
       PrecinctRow("155", "Precinct 155", 4968) >>

AddressRow(id, pid, number, street, lat, lng) ==
    [id |-> id, precinct_id |-> pid, street_number |-> number,
     street_name |-> street, latitude |-> lat, longitude |-> lng]

\* What canvassing_data.db may hold of the two reference tables when the
\* app starts (rows in insertion order; address ids are the AUTOINCREMENT
\* keys): nothing, precincts without addresses, precincts with addresses.
SeedPrecincts ==
    << PrecinctRow("7", "Precinct 7", 0),
       PrecinctRow("123", "Precinct 123", 3) >>

SeedAddresses ==
    << AddressRow(1, "123", 12, "OAK AVE", 27771, -82640),
       AddressRow(2, "123", 40, "MAIN ST", 27772, -82641),
       AddressRow(3, "123", 8, "MAIN ST", 27773, -82642) >>

FreshStore == [precincts |-> <<>>, addresses |-> <<>>]

SeedStores ==
    { FreshStore,
      [precincts |-> SeedPrecincts, addresses |-> <<>>],
      [precincts |-> SeedPrecincts, addresses |-> SeedAddresses] }

----------------------------------------------------------------------------
(* Entity store reads *)

\* ORDER BY id
ByPrecinctId(p) == <<PrecinctIdRank[p.id], 0>>

\* ORDER BY street_name, street_number
ByStreet(a) == <<StreetRank[a.street_name], a.street_number>>

\* The st.cache_data caches of the two loaders are not modelled: the tables
\* they read are never written, so a cached result equals a fresh one, and
\* st.cache_data hands every caller its own copy.
load_precinct_data ==
    IF Len(tbl_precincts) > 0
    THEN StableSort(tbl_precincts,
              [k \in DOMAIN tbl_precincts |-> ByPrecinctId(tbl_precincts[k])] \o <<>>)
    ELSE SamplePrecincts

\* the generated demo addresses of a precinct
SampleAddresses(precinct_id) ==
    [k \in 1..Min(50, PrecinctNumber[precinct_id] * 5) |->
        AddressRow(k, precinct_id, 100 + (k - 1) * 10,
                   streets[((k - 1) % Len(streets)) + 1],
                   27770 + ((k - 1) % 10), -82640 + ((k - 1) % 5))]

load_precinct_addresses(precinct_id) ==
    LET InPrecinct(a) == a.precinct_id = precinct_id
        rows == SelectRows(tbl_addresses,
                    [k \in DOMAIN tbl_addresses |-> InPrecinct(tbl_addresses[k])] \o <<>>)
    IN  IF Len(rows) > 0 THEN StableSort(rows, [k \in DOMAIN rows |-> ByStreet(rows[k])] \o <<>>)
        ELSE IF precinct_id \in DOMAIN PrecinctNumber
             THEN SampleAddresses(precinct_id)
             ELSE <<>>     \* int() raises, the except branch returns []

\* The lists load_address_interactions(address_id) can return: the rows of
\* the address that JOIN finds a volunteers row for, each with that row's
\* name, in descending order of timestamp.  SQL leaves the order of rows
\* with equal timestamps open, so there is one list per such order.
load_address_interactions(address_id) ==
    LET VolunteerOf(r) ==
            {v \in Range(tbl_volunteers) : v.id = r.volunteer_id}
        joined ==
            {k \in DOMAIN tbl_interactions :
                /\ tbl_interactions[k].address_id = address_id
                /\ VolunteerOf(tbl_interactions[k]) # {}}
        Joined(k) ==
            LET r == tbl_interactions[k]
                v == CHOOSE w \in VolunteerOf(r) : TRUE
            IN  [id |-> r.id, address_id |-> r.address_id,
                 volunteer_id |-> r.volunteer_id,
                 resident_name |-> r.resident_name,
                 response_type |-> r.response_type,
                 yard_sign |-> r.yard_sign,
                 volunteer_interest |-> r.volunteer_interest,
                 notes |-> r.notes, timestamp |-> r.timestamp,
                 volunteer_name |-> v.name]
        orders ==
            {o \in [1..Cardinality(joined) -> joined] :
                /\ \A i, j \in DOMAIN o : o[i] = o[j] => i = j
                /\ \A i, j \in DOMAIN o :
                      i < j => tbl_interactions[o[i]].timestamp
                                 >= tbl_interactions[o[j]].timestamp}
    IN  {[i \in DOMAIN o |-> Joined(o[i])] \o <<>> : o \in orders}

----------------------------------------------------------------------------
(* Entity store writes *)

\* InteractionRow with the text columns read as data.get(key): NULL, not '',
\* for a key the dict lacks
InteractionRow_NullDefaults(data) ==
    [id |-> Len(tbl_interactions) + 1,
     address_id |-> Get(data, "address_id", NONE),
     volunteer_id |-> Get(data, "volunteer_id", 1),
     resident_name |-> Get(data, "resident_name", NONE),
     response_type |-> Get(data, "response_type", NONE),
     yard_sign |-> Get(data, "yard_sign", NONE),
     volunteer_interest |-> Get(data, "volunteer_interest", NONE),
     notes |-> Get(data, "notes", NONE),
     timestamp |-> clock']

\* the row the INSERT of save_interaction stores for the dict `data`
\* (timestamp is CURRENT_TIMESTAMP, the clock as the INSERT reads it; id is
\* the AUTOINCREMENT key, rows are never deleted)
InteractionRow(data) ==
    [id |-> Len(tbl_interactions) + 1,
     address_id |-> Get(data, "address_id", NONE),
     volunteer_id |-> Get(data, "volunteer_id", 1),
     resident_name |-> Get(data, "resident_name", ""),
     response_type |-> Get(data, "response_type", ""),
     yard_sign |-> Get(data, "yard_sign", ""),
     volunteer_interest |-> Get(data, "volunteer_interest", ""),
     notes |-> Get(data, "notes", ""),
     timestamp |-> clock']

\* the interactions table after save_interaction(data); when the store
\* raises, the except branch reports the error and returns None
save_interaction(data, raises) ==
    IF raises THEN tbl_interactions
    ELSE Append(tbl_interactions, InteractionRow(data))

\* VolunteerLookup comparing names without regard to case (COLLATE NOCASE)
VolunteerLookup_NoCase(name) ==
    LET Fold(n) == IF n = "Jane Doe" THEN "jane doe" ELSE n
        HasName(v) == Fold(v.name) = Fold(name)
    IN  SelectRows(tbl_volunteers,
                   [k \in DOMAIN tbl_volunteers |-> HasName(tbl_volunteers[k])] \o <<>>)

\* SELECT id FROM volunteers WHERE name = ? (BINARY collation), fetchone()
VolunteerLookup(name) ==
    LET HasName(v) == v.name = name
    IN  SelectRows(tbl_volunteers,
                   [k \in DOMAIN tbl_volunteers |-> HasName(tbl_volunteers[k])] \o <<>>)

\* the id get_or_create_volunteer returns
get_or_create_volunteer_id(name) ==
    IF VolunteerLookup(name) # <<>> THEN VolunteerLookup(name)[1].id
    ELSE Len(tbl_volunteers) + 1

\* the volunteers table after get_or_create_volunteer(name, email, phone)
get_or_create_volunteer(name, email, phone) ==
    IF VolunteerLookup(name) # <<>> THEN tbl_volunteers
    ELSE Append(tbl_volunteers,
                [id |-> Len(tbl_volunteers) + 1, name |-> name,
                 email |-> email, phone |-> phone])

----------------------------------------------------------------------------
(* Coverage aggregator *)

ContactedIds == {tbl_interactions[k].address_id : k \in DOMAIN tbl_interactions}

\* response_type -> COUNT(*) over the rows with a non-empty response_type
ResponseBreakdown ==
    [rt \in {tbl_interactions[k].response_type : k \in DOMAIN tbl_interactions}
            \ {"", NONE} |->
        Cardinality({k \in DOMAIN tbl_interactions :
                        tbl_interactions[k].response_type = rt})]

\* precincts LEFT JOIN addresses LEFT JOIN interactions GROUP BY p.id
\* (groups come out in p.id order)
PrecinctCoverageQuery ==
    LET ps == StableSort(tbl_precincts,
              [k \in DOMAIN tbl_precincts |-> ByPrecinctId(tbl_precincts[k])] \o <<>>)
    IN  [k \in DOMAIN ps |->
            [id |-> ps[k].id, name |-> ps[k].name,
             total_addresses |-> ps[k].total_addresses,
             addresses_contacted |->
                Cardinality({a.id : a \in {b \in Range(tbl_addresses) :
                                            /\ b.precinct_id = ps[k].id
                                            /\ b.id \in ContactedIds}})]]

CoverageRow(id, name, total, contacted) ==
    [id |-> id, name |-> name, total_addresses |-> total,
     addresses_contacted |-> contacted]

SampleResponseBreakdown ==
    [rt \in {"supportive", "leaning", "undecided", "opposed", "not-home"} |->
        CASE rt = "supportive" -> 19 [] rt = "leaning" -> 5
          [] rt = "undecided" -> 8 [] rt = "opposed" -> 7
          [] rt = "not-home" -> 3]

SamplePrecinctCoverage ==
    << CoverageRow("123", "Precinct 123", 1253, 245),
       CoverageRow("125", "Precinct 125", 2577, 512),
       CoverageRow("130", "Precinct 130", 1615, 324) >>

\* the dict get_stats returns (coverage_percentage in hundredths of a percent)
get_stats ==
    LET no_data == Len(tbl_interactions) = 0
        total_interactions == IF no_data THEN 42 ELSE Len(tbl_interactions)
        total_addresses_contacted ==
            IF no_data THEN 28 ELSE Cardinality(ContactedIds)
        total_addresses ==
            IF no_data /\ Len(tbl_addresses) = 0 THEN 100
            ELSE Len(tbl_addresses)
    IN  [total_interactions |-> total_interactions,
         total_addresses_contacted |-> total_addresses_contacted,
         total_addresses |-> total_addresses,
         coverage_percentage |->
            IF total_addresses > 0
            THEN Round2Pct(total_addresses_contacted, total_addresses)
            ELSE 0,
         response_breakdown |->
            IF no_data THEN SampleResponseBreakdown ELSE ResponseBreakdown,
         precinct_coverage |->
            IF no_data THEN SamplePrecinctCoverage ELSE PrecinctCoverageQuery]

\* the Coverage column of the Stats tab, in tenths of a percent
CoverageColumn(row) ==
    IF row.total_addresses > 0
    THEN Format1Pct(row.addresses_contacted, row.total_addresses)
    ELSE 0

----------------------------------------------------------------------------
(* Map markers *)

\* the icon colour create_map gives an address dict
icon_color(address) ==
    IF "visited" \in DOMAIN address /\ address["visited"]
    THEN CASE Get(address, "response_type", NONE) = "supportive" -> "green"
           [] Get(address, "response_type", NONE) = "opposed" -> "red"
           [] Get(address, "response_type", NONE) = "undecided" -> "orange"
           [] Get(address, "response_type", NONE) = "not-home" -> "gray"
           [] OTHER -> "blue"
    ELSE "blue"

\* the markers create_map adds to the map: one per address with
\* coordinates, in list order
create_map(addrs) ==
    LET HasCoordinates(a) ==
            Get(a, "latitude", 0) # 0 /\ Get(a, "longitude", 0) # 0
        shown == SelectRows(addrs, [k \in DOMAIN addrs |-> HasCoordinates(addrs[k])] \o <<>>)
    IN  [k \in DOMAIN shown |->
            [id |-> shown[k].id,
             location |-> <<shown[k].latitude, shown[k].longitude>>,
             color |-> icon_color(shown[k])]]

----------------------------------------------------------------------------
(* Inputs of the handlers *)

\* the options of the form's Response selectbox
ResponseOptions == {"", "Supportive", "Leaning", "Undecided", "Opposed",
                    "Not Home", "Inaccessible"}

\* str.lower() on the Response options
Lower ==
    [o \in ResponseOptions |->
        CASE o = "" -> ""
          [] o = "Supportive" -> "supportive"
          [] o = "Leaning" -> "leaning"
          [] o = "Undecided" -> "undecided"
          [] o = "Opposed" -> "opposed"
          [] o = "Not Home" -> "not home"
          [] o = "Inaccessible" -> "inaccessible"]

EmptyTexts ==
    [resident_name |-> "", yard_sign |-> "", volunteer_interest |-> "",
     notes |-> ""]

NoContact == [email |-> "", phone |-> ""]

\* what the user types into the other fields of the form: nothing, or
\* something in each
FormTexts ==
    { EmptyTexts,
      [resident_name |-> "Pat Lee", yard_sign |-> "Yes - Accepted",
       volunteer_interest |-> "Maybe - Follow Up", notes |-> "call back"] }

\* names typed into the Settings form
VolunteerNames == {"Jane Doe", "jane doe"}

ContactDetails ==
    { NoContact,
      [email |-> "jd@example.org", phone |-> "727-555-0100"] }

\* the precinct ids behind the selectbox options (selected_option.split()[1])
PrecinctOptions ==
    [k \in DOMAIN load_precinct_data |-> load_precinct_data[k].id]

----------------------------------------------------------------------------
(* Session *)

\* the state after the first run of the script on a store seeded from seeds
InitWith(seeds) ==
    /\ \E seed \in seeds :
          /\ tbl_precincts = seed.precincts
          /\ tbl_addresses = seed.addresses
    /\ tbl_interactions = <<>>
    /\ tbl_volunteers = <<>>
    /\ volunteer_name = "Jane Doe"
    /\ volunteer_id = 1
    /\ selected_precinct = NONE
    /\ addresses = <<>>
    /\ visited_addresses = {}
    /\ clock = 0
    /\ last_op = "start"

\* SelectPrecinct reloading on every run of the script, not only when the
\* precinct changed
SelectPrecinct_AlwaysReload(precinct_id) ==
    /\ selected_precinct' = precinct_id
    /\ addresses' = load_precinct_addresses(precinct_id)
    /\ visited_addresses' = {}
    /\ last_op' = "select"
    /\ UNCHANGED <<store, volunteer_name, volunteer_id, clock>>

\* Home tab: the precinct selectbox holds the option of precinct_id
SelectPrecinct(precinct_id) ==
    /\ IF selected_precinct # precinct_id
       THEN /\ selected_precinct' = precinct_id
            /\ addresses' = load_precinct_addresses(precinct_id)
            /\ visited_addresses' = {}
       ELSE UNCHANGED <<selected_precinct, addresses, visited_addresses>>
    /\ last_op' = "select"
    /\ UNCHANGED <<store, volunteer_name, volunteer_id, clock>>

\* CardOffered with the buttons drawn on visited cards too
CardOffered_Always(i) ==
    /\ selected_precinct # NONE
    /\ addresses # <<>>
    /\ i \in DOMAIN addresses

\* the address cards are drawn when a precinct is selected and its list is
\* not empty; card i (from 1) offers its buttons while not visited
CardOffered(i) ==
    /\ selected_precinct # NONE
    /\ addresses # <<>>
    /\ i \in DOMAIN addresses
    /\ Get(addresses[i], "id", i - 1) \notin visited_addresses

\* ByStreetKey reading the house number only
ByStreetKey_NumberOnly(x) ==
    <<0, Get(x, "street_number", 0)>>

\* the Progress and Remaining metrics of the Home tab (percentage in tenths
\* of a percent, as the :.1f of the metric shows it)
Progress ==
    LET total_addresses == Len(addresses)
        visited_count == Cardinality(visited_addresses)
    IN  [total_addresses |-> total_addresses,
         visited_count |-> visited_count,
         remaining_count |-> total_addresses - visited_count,
         percentage |-> IF total_addresses > 0
                        THEN Format1Pct(visited_count, total_addresses)
                        ELSE 0]

\* key=lambda x: (x.get('street_name', ''), x.get('street_number', 0))
ByStreetKey(x) ==
    <<StreetRank[Get(x, "street_name", "")], Get(x, "street_number", 0)>>

\* the Sort by Name button
SortByName ==
    /\ selected_precinct # NONE
    /\ addresses # <<>>
    /\ addresses' = StableSort(addresses,
                    [k \in DOMAIN addresses |-> ByStreetKey(addresses[k])] \o <<>>)
    /\ last_op' = "sort"
    /\ UNCHANGED <<store, volunteer_name, volunteer_id, selected_precinct,
                   visited_addresses, clock>>

\* the dict the interaction form builds on Save
FormData(address_id, response_type, texts) ==
    [address_id |-> address_id,
     volunteer_id |-> volunteer_id,
     resident_name |-> texts.resident_name,
     response_type |-> IF response_type # "" THEN Lower[response_type] ELSE "",
     yard_sign |-> texts.yard_sign,
     volunteer_interest |-> texts.volunteer_interest,
     notes |-> texts.notes]

\* the dict of the Not Home button
NotHomeData(address_id) ==
    [address_id |-> address_id, volunteer_id |-> volunteer_id,
     response_type |-> "not-home"]

\* the dict of the Skip button
SkipData(address_id) ==
    [address_id |-> address_id, volunteer_id |-> volunteer_id,
     response_type |-> "skipped"]

\* Record marking the card's position in the list (the i of enumerate) as
\* visited, not the address id
Record_VisitIndex(op, i, data, raises, tick) ==
    /\ CardOffered(i)
    /\ Len(tbl_interactions) < MaxInteractions
    /\ clock' = (IF raises THEN clock ELSE clock + tick)
    /\ tbl_interactions' = save_interaction(data, raises)
    /\ visited_addresses' = visited_addresses \cup {i - 1}
    /\ last_op' = op
    /\ UNCHANGED <<tbl_precincts, tbl_addresses, tbl_volunteers,
                   volunteer_name, volunteer_id, selected_precinct, addresses>>

\* what the three record handlers do with their dict: save_interaction, whose
\* result is dropped, then visited_addresses.add.  CURRENT_TIMESTAMP counts
\* whole seconds and only INSERT reads it: tick is what the clock has moved
\* on since the last INSERT.
Record(op, i, data, raises, tick) ==
    /\ CardOffered(i)
    /\ Len(tbl_interactions) < MaxInteractions
    /\ clock' = (IF raises THEN clock ELSE clock + tick)
    /\ tbl_interactions' = save_interaction(data, raises)
    /\ visited_addresses' = visited_addresses \cup {data.address_id}
    /\ last_op' = op
    /\ UNCHANGED <<tbl_precincts, tbl_addresses, tbl_volunteers,
                   volunteer_name, volunteer_id, selected_precinct, addresses>>

\* Contact, then Save in the interaction form of card i
SubmitInteractionForm(i, response_type, texts, raises, tick) ==
    Record("form", i,
           FormData(Get(addresses[i], "id", i - 1), response_type, texts),
           raises, tick)

\* the Not Home button of card i
NotHome(i, raises, tick) ==
    Record("nothome", i, NotHomeData(Get(addresses[i], "id", i - 1)), raises,
           tick)

\* the Skip button of card i
Skip(i, raises, tick) ==
    Record("skip", i, SkipData(Get(addresses[i], "id", i - 1)), raises, tick)

\* Settings tab: Save Settings
SaveSettings(name, contact) ==
    /\ volunteer_name' = name
    /\ tbl_volunteers' = get_or_create_volunteer(name, contact.email, contact.phone)
    /\ volunteer_id' = get_or_create_volunteer_id(name)
    /\ last_op' = "settings"
    /\ UNCHANGED <<tbl_precincts, tbl_addresses, tbl_interactions,
                   selected_precinct, addresses, visited_addresses, clock>>

\* the steps of the program, the user's inputs drawn from the given sets:
\* the selectbox options picked and the address cards acted on (from 1), the
\* form's responses and texts, whether the store raises, the seconds between
\* two INSERTs, the Settings form's names and contact details
NextWith(picks, cards, responses, texts, failures, ticks, names, contacts) ==
    \/ \E k \in picks :
          k \in DOMAIN PrecinctOptions /\ SelectPrecinct(PrecinctOptions[k])
    \/ SortByName
    \/ \E i \in cards, o \in responses, t \in texts, r \in failures,
          s \in ticks :
          SubmitInteractionForm(i, o, t, r, s)
    \/ \E i \in cards, r \in failures, s \in ticks : NotHome(i, r, s)
    \/ \E i \in cards, r \in failures, s \in ticks : Skip(i, r, s)
    \/ \E n \in names, c \in contacts : SaveSettings(n, c)

\* Every handler on every seeded store, the store raising or not; the user
\* moves between the first two precincts, acts on the first card a second or
\* more after the last time, saves the form with one response and no text
\* and the Settings form with the default name.
Init == InitWith(SeedStores)

Next ==
    NextWith({1, 2}, {1}, {"Supportive"}, {EmptyTexts}, BOOLEAN, {1},
             {"Jane Doe"}, {NoContact})

Spec == Init /\ [][Next]_vars

\* Every handler on a fresh store that serves every call; the user stays in
\* the first precinct and saves the form with any response and texts.
InitFresh == InitWith({FreshStore})

NextForm ==
    NextWith({1}, {1}, ResponseOptions, FormTexts, {FALSE}, {1},
             {"Jane Doe"}, {NoContact})

SpecForm == InitFresh /\ [][NextForm]_vars

\* Every handler on a fresh store that serves every call; the user stays in
\* the first precinct and saves the Settings form with any name and contact
\* details.
NextVolunteers ==
    NextWith({1}, {1}, {"Supportive"}, {EmptyTexts}, {FALSE}, {1},
             VolunteerNames, ContactDetails)

SpecVolunteers == InitFresh /\ [][NextVolunteers]_vars

\* Every handler on a fresh store that serves every call; the user moves
\* between the first two precincts and acts on the first card, within the
\* second of the last INSERT or later, and saves the Settings form with the
\* default name.
NextClock ==
    NextWith({1, 2}, {1}, {"Supportive"}, {EmptyTexts}, {FALSE}, {0, 1},
             {"Jane Doe"}, {NoContact})

SpecClock == InitFresh /\ [][NextClock]_vars

----------------------------------------------------------------------------
(* Claims *)

\* the rows of the interactions table for address_id, oldest first
RowsOf(address_id) ==
    LET ForAddress(r) == r.address_id = address_id
    IN  SelectRows(tbl_interactions,
                   [k \in DOMAIN tbl_interactions |-> ForAddress(tbl_interactions[k])] \o <<>>)

\* a step that appended one row to the interactions table
Recorded == Len(tbl_interactions') = Len(tbl_interactions) + 1

\* C1: in every reachable state, the coverage_percentage get_stats returns
\* and the Coverage of every precinct_coverage row lie in [0, 100], and are 0
\* when the number of addresses in scope (the addresses table, the row's
\* total_addresses) is 0.
C1_CoverageWithinRange ==
    /\ get_stats.coverage_percentage \in 0..10000
    /\ Len(tbl_addresses) = 0 => get_stats.coverage_percentage = 0
    /\ \A k \in DOMAIN get_stats.precinct_coverage :
          LET row == get_stats.precinct_coverage[k]
          IN  /\ CoverageColumn(row) \in 0..1000
              /\ row.total_addresses = 0 => CoverageColumn(row) = 0

\* C2: a step that records one interaction for address A raises
\* get_stats' total_interactions by exactly 1, and its
\* total_addresses_contacted by 1 if A had no interaction before and by 0
\* otherwise.
C2_RecordingMovesTotals ==
    [][Recorded =>
        LET A == tbl_interactions'[Len(tbl_interactions')].address_id
        IN  /\ get_stats'.total_interactions = get_stats.total_interactions + 1
            /\ get_stats'.total_addresses_contacted =
                  get_stats.total_addresses_contacted
                    + (IF A \in ContactedIds THEN 0 ELSE 1)]_vars

\* C3: get_stats returns the counts of the store: total_interactions the
\* number of interaction rows, total_addresses_contacted the number of
\* distinct address_id values among them, total_addresses the number of
\* address rows, and a coverage of 0 while nothing is contacted.
C3_StatsAreStoreCounts ==
    /\ get_stats.total_interactions = Len(tbl_interactions)
    /\ get_stats.total_addresses_contacted =
          Cardinality({tbl_interactions[k].address_id :
                          k \in DOMAIN tbl_interactions})
    /\ get_stats.total_addresses = Len(tbl_addresses)
    /\ tbl_interactions = <<>> => get_stats.coverage_percentage = 0

\* C4: the marker of an address is coloured from the outcome recorded for it
\* in the session: green for supportive, red for opposed, orange for
\* undecided, gray for not-home, blue for any other outcome, and blue for an
\* address with no outcome recorded in the session.
C4_MarkerColourFollowsOutcome ==
    \A k \in DOMAIN create_map(addresses) :
        LET marker == create_map(addresses)[k]
            rows == RowsOf(marker.id)
            outcome == rows[Len(rows)].response_type
        IN  marker.color =
                IF marker.id \in visited_addresses /\ rows # <<>>
                THEN CASE outcome = "supportive" -> "green"
                       [] outcome = "opposed" -> "red"
                       [] outcome = "undecided" -> "orange"
                       [] outcome = "not-home" -> "gray"
                       [] OTHER -> "blue"
                ELSE "blue"

\* C5: selecting the precinct that is already selected leaves the visited
\* set and the address list unchanged; selecting another one empties the
\* visited set and makes the address list that precinct's addresses.
C5_SelectPrecinctEffect ==
    [][last_op' = "select" =>
        IF selected_precinct' = selected_precinct
        THEN /\ visited_addresses' = visited_addresses
             /\ addresses' = addresses
        ELSE /\ visited_addresses' = {}
             /\ addresses' = load_precinct_addresses(selected_precinct')]_vars

\* C5 witness: the selected precinct was selected again while addresses of
\* it were visited (another precinct's selection would have emptied the set)
C5_Witness ==
    /\ last_op = "select"
    /\ selected_precinct # NONE
    /\ visited_addresses # {}

\* C6: an address enters the visited set only in a step that appends its
\* interaction row; a recording that fails leaves the session unchanged.
C6_VisitedOnlyAfterAppend ==
    [][\A a \in visited_addresses' \ visited_addresses :
          /\ Recorded
          /\ tbl_interactions'[Len(tbl_interactions')].address_id = a]_vars

\* C7: every stored interaction's address_id references a row of the
\* addresses table.
C7_InteractionsReferenceAddresses ==
    \A k \in DOMAIN tbl_interactions :
        \E j \in DOMAIN tbl_addresses :
            tbl_addresses[j].id = tbl_interactions[k].address_id

\* C8: every stored response_type is one of supportive, leaning, undecided,
\* opposed, not-home, inaccessible, skipped and the empty string.
C8_ResponseTypesCanonical ==
    \A k \in DOMAIN tbl_interactions :
        tbl_interactions[k].response_type \in
            {"supportive", "leaning", "undecided", "opposed", "not-home",
             "inaccessible", "skipped", ""}

\* C9: the row a Not Home or Skip quick action stores equals, id included,
\* the row save_interaction would store for the full form's dict of the same
\* address and volunteer with that response_type and every other field
\* empty; its resident_name, yard_sign, volunteer_interest and notes are the
\* empty string.
C9_QuickActionRowIsFormRow ==
    [][(last_op' \in {"nothome", "skip"} /\ Recorded) =>
        LET row == tbl_interactions'[Len(tbl_interactions')]
            A == CHOOSE a \in visited_addresses' \ visited_addresses : TRUE
            form == [FormData(A, "", EmptyTexts) EXCEPT
                        !.response_type =
                            IF last_op' = "nothome" THEN "not-home"
                            ELSE "skipped"]
        IN  /\ visited_addresses' \ visited_addresses # {}
            /\ row = InteractionRow(form)
            /\ row.resident_name = "" /\ row.yard_sign = ""
            /\ row.volunteer_interest = "" /\ row.notes = ""]_vars

\* C9 witness: a Not Home quick action has stored its row, for a volunteer
\* other than the default one
C9_Witness ==
    /\ last_op = "nothome"
    /\ tbl_interactions # <<>>
    /\ tbl_interactions[Len(tbl_interactions)].response_type = "not-home"
    /\ tbl_interactions[Len(tbl_interactions)].volunteer_id = 2

C11_OneCoverageRowPerPrecinct ==
    LET rows == get_stats.precinct_coverage
    IN  /\ Len(rows) = Len(tbl_precincts)
        /\ \A k \in DOMAIN tbl_precincts :
              \E j \in DOMAIN rows :
                  /\ rows[j].id = tbl_precincts[k].id
                  /\ rows[j].addresses_contacted =
                        Cardinality({a.id : a \in
                            {b \in Range(tbl_addresses) :
                                /\ b.precinct_id = tbl_precincts[k].id
                                /\ RowsOf(b.id) # <<>>}})

\* C12: for any two different precincts the user can select, the address
\* lists load_precinct_addresses returns share no address id.
C12_AddressIdInOnePrecinct ==
    LET ids == [k \in DOMAIN PrecinctOptions |->
                  {a.id : a \in Range(load_precinct_addresses(
                                        PrecinctOptions[k]))}] \o <<>>
    IN  \A k, j \in DOMAIN PrecinctOptions :
            PrecinctOptions[k] # PrecinctOptions[j] => ids[k] \cap ids[j] = {}

\* C13: a Sort by Name step leaves a permutation of the address list that is
\* in ascending order of (street_name, street_number); sorting that list
\* again gives the same list; the visited set and the selected precinct are
\* as before.
C13_SortByNameIdempotent ==
    /\ [](last_op = "sort" =>
            StableSort(addresses,
                [k \in DOMAIN addresses |->
                    ByStreetKey(addresses[k])] \o <<>>) = addresses)
    /\ [][last_op' = "sort" =>
          LET name(k) == StreetRank[Get(addresses'[k], "street_name", "")]
              number(k) == Get(addresses'[k], "street_number", 0)
          IN  /\ Len(addresses') = Len(addresses)
              /\ \A k \in DOMAIN addresses :
                    Cardinality({j \in DOMAIN addresses' :
                                    addresses'[j] = addresses[k]})
                      = Cardinality({j \in DOMAIN addresses :
                                       addresses[j] = addresses[k]})
              /\ \A k \in DOMAIN addresses' :
                    k > 1 => \/ name(k - 1) < name(k)
                             \/ /\ name(k - 1) = name(k)
                                /\ number(k - 1) <= number(k)
              /\ last_op = "sort" => addresses' = addresses
              /\ visited_addresses' = visited_addresses
              /\ selected_precinct' = selected_precinct]_vars

\* C13 witness: the list was sorted into another order than it was loaded
\* in, with an address of it visited
C13_Witness ==
    /\ last_op = "sort"
    /\ visited_addresses # {}
    /\ addresses # load_precinct_addresses(selected_precinct)

\* C14: in every reachable state the visited set is a subset of the ids of
\* the loaded address list, the visited count is at most the length of the
\* list, and the progress percentage lies in [0, 100].
C14_VisitedWithinLoaded ==
    /\ visited_addresses \subseteq
          {Get(addresses[k], "id", k - 1) : k \in DOMAIN addresses}
    /\ Progress.visited_count <= Progress.total_addresses
    /\ Progress.remaining_count >= 0
    /\ Progress.percentage \in 0..1000

\* C14 witness: two addresses of the loaded list are visited, the second
\* recorded after a sort brought it to the first card
C14_Witness ==
    /\ Cardinality(visited_addresses) = 2
    /\ last_op \in {"form", "nothome", "skip"}
    /\ Progress.percentage > 0

\* C15: for every address with recorded interactions, whatever the session's
\* volunteer settings, every list load_address_interactions can return
\* holds each of the address's interactions, the one recorded last first
\* and the others in descending order of timestamp.
C15_RecordedInteractionListedFirst ==
    \A A \in ContactedIds :
        \A result \in load_address_interactions(A) :
            /\ {result[k].id : k \in DOMAIN result}
                  = {RowsOf(A)[k].id : k \in DOMAIN RowsOf(A)}
            /\ result[1].id = RowsOf(A)[Len(RowsOf(A))].id
            /\ \A k \in DOMAIN result :
                  k > 1 => result[k - 1].timestamp >= result[k].timestamp

\* C16: a step that records an interaction records it for an address that
\* is not in the visited set and puts the address into the set, and an
\* address leaves the set only in a step that selects another precinct; so
\* between two changes of the selected precinct at most one interaction is
\* recorded per address.
C16_OneInteractionPerVisit ==
    [][/\ Recorded =>
            LET A == tbl_interactions'[Len(tbl_interactions')].address_id
            IN  /\ A \notin visited_addresses
                /\ A \in visited_addresses'
       /\ visited_addresses \ visited_addresses' # {} =>
            /\ last_op' = "select"
            /\ selected_precinct' # selected_precinct]_vars

\* C16 witness: a stored address of precinct 123 has its second interaction,
\* recorded after another precinct was selected in between
C16_Witness ==
    /\ last_op \in {"form", "nothome", "skip"}
    /\ selected_precinct = "123"
    /\ tbl_addresses # <<>>
    /\ \E a \in visited_addresses : Len(RowsOf(a)) = 2

====
